---- MODULE Spec2Model ----
(***************************************************************************)
(* Model of src/main.py: the /chat streaming generator                     *)
(* (stream_llama_response), the /chat admission handler (chat) and the     *)
(* DELETE /history handler (delete_history), running as concurrent asyncio *)
(* tasks over the chat_history directory and the chat_locks table.         *)
(*                                                                         *)
(* Every await / yield of the source is a step boundary; the statements    *)
(* inside an `async with lock:` block are stepped one by one, so the model *)
(* allows every interleaving a scheduler could produce at those points.    *)
(*                                                                         *)
(* Text is modelled as a sequence of tokens: "a" is a printable character, *)
(* "sp" is whitespace and "MARK" stands for the marker "### Assistant:".   *)
(***************************************************************************)
EXTENDS Integers, Sequences, FiniteSets, TLC

\* ---------------------------------------------------------------- bounds
NumReq == 2          \* requests in flight at once (Spec)
MaxSeqTurns == 11    \* successful turns of the sequential caller (SeqSpec)

\* ------------------------------------------------------ program constants
MAX_HISTORY_MESSAGES == 10
MAX_TOTAL_CHATS == 100

Req == 1..NumReq
Sid == {"s1", "s2"}
Msg == {1, 2}
Chunk == {"a", "sp", "MARK"}
\* what the generation process can write to stdout before closing it
Outputs == {<<>>, <<"sp">>, <<"MARK", "a">>}
\* how the generation process can end: exit status and stderr text
ProcEnd == {[code |-> 0, err |-> <<>>],
            [code |-> 1, err |-> <<"sp", "e", "sp">>]}

NoReq == 0
NoFile == <<>>                  \* no file under the path
File(data) == <<data>>          \* a file holding the JSON document `data`
\* a file that is no JSON document: empty, cut short or otherwise malformed
Corrupt == <<[malformed |-> TRUE]>>
Null == "null"

VARIABLES
  store,       \* chat_history/<id>.json : File(record), or NoFile
  otherFiles,  \* directory entries of sessions no modelled request names
  otherLocks,  \* chat_locks keys of sessions no modelled request names
  chat_locks,  \* keys of the chat_locks defaultdict
  holder,      \* per session lock: the request inside the lock, or NoReq
  waiters,     \* per session lock: FIFO queue of requests awaiting acquire
  rq,          \* per request: program counter and locals
  appended     \* per session: turns a finalize has saved since the record
               \* was last absent (history of the store, for the claims)

vars == <<store, otherFiles, otherLocks, chat_locks, holder, waiters, rq, appended>>

\* ------------------------------------------------------------- pure parts

Turn(u, a) == [user |-> u, assistant |-> a]

EmptyRecord == [system_prompt |-> Null, history |-> <<>>]

\* faulty variant: no truncation
LastTurnsAll(h) == h

\* faulty variant: the oldest turns are kept, h[:MAX_HISTORY_MESSAGES]
LastTurnsOldest(h) ==
  IF Len(h) > MAX_HISTORY_MESSAGES THEN SubSeq(h, 1, MAX_HISTORY_MESSAGES) ELSE h

\* h[-MAX_HISTORY_MESSAGES:]
LastTurns(h) ==
  IF Len(h) > MAX_HISTORY_MESSAGES
  THEN SubSeq(h, Len(h) - MAX_HISTORY_MESSAGES + 1, Len(h))
  ELSE h

\* os.path.exists(get_sanitized_history_path(chat_id))
Exists(st, s) == st[s] # NoFile

\* json.load(f) raises (json.JSONDecodeError); load_chat_data has no handler
LoadRaises(st, s) == st[s] = Corrupt

\* load_chat_data, when json.load returns
load_chat_data(st, s) == IF Exists(st, s) THEN st[s][1] ELSE EmptyRecord

\* save_chat_data
save_chat_data(st, s, data) == [st EXCEPT ![s] = File(data)]

\* len(os.listdir(HISTORY_DIR))
DirCount(st, others) == others + Cardinality({s \in Sid : Exists(st, s)})

\* str.strip() on a token sequence
RECURSIVE LStrip(_)
LStrip(t) == IF t # <<>> /\ Head(t) = "sp" THEN LStrip(Tail(t)) ELSE t

RECURSIVE RStrip(_)
RStrip(t) ==
  IF t # <<>> /\ t[Len(t)] = "sp" THEN RStrip(SubSeq(t, 1, Len(t) - 1)) ELSE t

Strip(t) == LStrip(RStrip(t))

\* text.split("### Assistant:")[-1]
RECURSIVE AfterLastMark(_)
AfterLastMark(t) ==
  IF \E i \in 1..Len(t) : t[i] = "MARK"
  THEN AfterLastMark(Tail(t))
  ELSE t

\* full_response_bytes.decode().split("### Assistant:")[-1].strip()
Extract(buf) == Strip(AfterLastMark(buf))

\* "\n".join(prompt_parts): the parts with the separator between neighbours
RECURSIVE Join(_)
Join(parts) ==
  IF Len(parts) <= 1 THEN parts
  ELSE <<Head(parts), <<"\n">>>> \o Join(Tail(parts))

\* `if system_prompt:` is false for None and for the empty string
Truthy(sp) == sp \notin {Null, ""}

\* f"### Human: {turn['user']}\n### Assistant: {turn['assistant']}" per turn
HistorySegments(h) ==
  [i \in 1..Len(h) |->
     <<"### Human: ", h[i].user, "\n", "### Assistant: ", h[i].assistant>>]

\* faulty variant: the dry-run prompt is built from the whole history
AssembleDryAll(data, message) ==
  Join((IF Truthy(data.system_prompt) THEN <<<<data.system_prompt>>>> ELSE <<>>)
       \o HistorySegments(data.history)
       \o <<<<"### Human: ", message, "\n", "### Assistant:">>>>)

\* the prompt of the dry-run branch of chat()
AssembleDry(data, message) ==
  LET system_prompt == data.system_prompt
      chat_history == LastTurns(data.history)
  IN Join((IF Truthy(system_prompt) THEN <<<<system_prompt>>>> ELSE <<>>)
          \o HistorySegments(chat_history)
          \o <<<<"### Human: ", message, "\n", "### Assistant:">>>>)

\* full_prompt of stream_llama_response
Assemble(data, message) ==
  LET system_prompt == data.system_prompt
      chat_history == LastTurns(data.history)
  IN Join((IF Truthy(system_prompt) THEN <<<<system_prompt>>>> ELSE <<>>)
          \o HistorySegments(chat_history)
          \o <<<<"### Human: ", message, "\n", "### Assistant:">>>>)

ErrorHeader == "\n\n[ERROR] Model execution failed. Details:\n"

\* faulty variant: the notice leaves the details out
ErrorNoticeBare(err) == <<ErrorHeader, "\n">>

\* f"\n\n[ERROR] Model execution failed. Details:\n{stderr}\n", stderr being
\* (await process.stderr.read()).decode('utf-8', 'ignore').strip()
ErrorNotice(err) == <<ErrorHeader>> \o Strip(err) \o <<"\n">>

\* the text of a stream of chunks
RECURSIVE Flatten(_)
Flatten(chunks) ==
  IF chunks = <<>> THEN <<>> ELSE Head(chunks) \o Flatten(Tail(chunks))

\* ------------------------------------------------------------ per request

IdleReq ==
  [pc |-> "idle", kind |-> "none", sid |-> "s1", msg |-> 0,
   chat_data |-> EmptyRecord, full_prompt |-> <<>>,
   proc |-> "none", returncode |-> 0, stderr |-> <<>>,
   full_response_bytes |-> <<>>, emitted |-> <<>>,
   assistant_response |-> <<>>, final_chat_data |-> EmptyRecord,
   outcome |-> "none", response |-> <<>>, wrote |-> FALSE]

\* the generator or handler of r has ended with outcome o: its locals are
\* gone; what the caller received and what the process did remain
Ended(q, o) ==
  [IdleReq EXCEPT !.pc = "done", !.kind = q.kind, !.sid = q.sid,
                  !.outcome = o, !.emitted = q.emitted, !.response = q.response,
                  !.proc = q.proc, !.returncode = q.returncode,
                  !.stderr = q.stderr, !.wrote = q.wrote]

\* pcs at which a request is inside `async with lock:`
LockedPcs == {"load1", "rel1", "fin_load", "fin_mutate", "fin_save", "rel2",
              "del_check", "del_remove", "del_rel"}

InLock(r) == rq[r].pc \in LockedPcs

\* ------------------------------------------------------------ session lock

\* faulty variant: acquire never waits
LockFreeAlways(s) == TRUE

\* asyncio.Lock.acquire succeeds at once when the lock is free and nobody waits
LockFree(s) == holder[s] = NoReq /\ waiters[s] = <<>>

\* `async with lock:` entry by request r on session s; in / wt are the pcs
\* inside the lock and waiting for it
Acquire(r, s, in, wt, fields) ==
  /\ chat_locks' = chat_locks \cup {s}
  /\ IF LockFree(s)
     THEN /\ holder' = [holder EXCEPT ![s] = r]
          /\ waiters' = waiters
          /\ rq' = [rq EXCEPT ![r] = [fields EXCEPT !.pc = in]]
     ELSE /\ holder' = holder
          /\ waiters' = [waiters EXCEPT ![s] = Append(@, r)]
          /\ rq' = [rq EXCEPT ![r] = [fields EXCEPT !.pc = wt]]

\* faulty variant: the lock is kept on leaving the block
ReleaseLockNever(h, s) == h

\* `async with lock:` exit
ReleaseLock(h, s) == [h EXCEPT ![s] = NoReq]

\* ------------------------------------------------------------------ Init

SeedHistory == [i \in 1..MAX_HISTORY_MESSAGES |-> Turn(0, <<"a">>)]
SeedRecord == [system_prompt |-> "sys", history |-> SeedHistory]

InitCommon ==
  /\ chat_locks = {}
  /\ holder = [s \in Sid |-> NoReq]
  /\ waiters = [s \in Sid |-> <<>>]
  /\ rq = [r \in Req |-> IdleReq]
  /\ appended = [s \in Sid |-> load_chat_data(store, s).history]

Init ==
  /\ store \in {[s \in Sid |-> NoFile],
                [s \in Sid |-> IF s = "s1" THEN File(SeedRecord) ELSE NoFile]}
  /\ otherFiles = MAX_TOTAL_CHATS - 1
  /\ otherLocks = otherFiles
  /\ InitCommon

\* ---------------------------------------------------------------- /chat

\* faulty variant: the check lets one session too many in
CapacityReachedLate(st, others) == DirCount(st, others) > MAX_TOTAL_CHATS

\* len(os.listdir(HISTORY_DIR)) >= MAX_TOTAL_CHATS
CapacityReached(st, others) == DirCount(st, others) >= MAX_TOTAL_CHATS

\* faulty variant: the dry-run branch looks the session lock up
ChatDryLock(r, s, m, dry) ==
  /\ rq[r].pc = "idle"
  /\ LET base == [rq[r] EXCEPT !.kind = "chat", !.sid = s, !.msg = m] IN
     IF ~Exists(store, s) /\ CapacityReached(store, otherFiles)
     THEN /\ rq' = [rq EXCEPT ![r] = Ended(base, "CapacityExceeded")]
          /\ chat_locks' = chat_locks
     ELSE IF dry /\ LoadRaises(store, s)
     THEN /\ rq' = [rq EXCEPT ![r] = Ended(base, "LoadError")]
          /\ chat_locks' = chat_locks
     ELSE IF dry
     THEN /\ rq' = [rq EXCEPT ![r] =
                     Ended([base EXCEPT !.response =
                              AssembleDry(load_chat_data(store, s), m)],
                           "DryRun")]
          /\ chat_locks' = chat_locks \cup {s}
     ELSE /\ rq' = [rq EXCEPT ![r] = [base EXCEPT !.pc = "gen_start"]]
          /\ chat_locks' = chat_locks
  /\ UNCHANGED <<store, otherFiles, otherLocks, holder, waiters, appended>>

\* chat(): admission check, then the dry-run answer or the StreamingResponse
Chat(r, s, m, dry) ==
  /\ rq[r].pc = "idle"
  /\ LET base == [rq[r] EXCEPT !.kind = "chat", !.sid = s, !.msg = m] IN
     IF ~Exists(store, s) /\ CapacityReached(store, otherFiles)
     THEN rq' = [rq EXCEPT ![r] =
                   Ended(base, "CapacityExceeded")]
     ELSE IF dry /\ LoadRaises(store, s)
     THEN rq' = [rq EXCEPT ![r] = Ended(base, "LoadError")]
     ELSE IF dry
     THEN rq' = [rq EXCEPT ![r] =
                   Ended([base EXCEPT !.response =
                            AssembleDry(load_chat_data(store, s), m)], "DryRun")]
     ELSE rq' = [rq EXCEPT ![r] = [base EXCEPT !.pc = "gen_start"]]
  /\ UNCHANGED <<store, otherFiles, otherLocks, chat_locks, holder, waiters, appended>>

\* stream_llama_response: lock = chat_locks[id]; async with lock:
GenStart(r) ==
  /\ rq[r].pc = "gen_start"
  /\ Acquire(r, rq[r].sid, "load1", "wait1", rq[r])
  /\ UNCHANGED <<store, otherFiles, otherLocks, appended>>

\* faulty variant: a waiter is let in while the lock is held
GrantedWhileHeld(r) ==
  /\ rq[r].pc \in {"wait1", "wait2", "del_wait"}
  /\ waiters[rq[r].sid] # <<>>
  /\ Head(waiters[rq[r].sid]) = r
  /\ holder' = [holder EXCEPT ![rq[r].sid] = r]
  /\ waiters' = [waiters EXCEPT ![rq[r].sid] = Tail(@)]
  /\ rq' = [rq EXCEPT ![r].pc =
              CASE rq[r].pc = "wait1" -> "load1"
                [] rq[r].pc = "wait2" -> "fin_load"
                [] OTHER -> "del_check"]
  /\ UNCHANGED <<store, otherFiles, otherLocks, chat_locks, appended>>

\* a waiting acquire is granted: the lock is free and r heads the queue
Granted(r) ==
  /\ rq[r].pc \in {"wait1", "wait2", "del_wait"}
  /\ holder[rq[r].sid] = NoReq
  /\ waiters[rq[r].sid] # <<>>
  /\ Head(waiters[rq[r].sid]) = r
  /\ holder' = [holder EXCEPT ![rq[r].sid] = r]
  /\ waiters' = [waiters EXCEPT ![rq[r].sid] = Tail(@)]
  /\ rq' = [rq EXCEPT ![r].pc =
              CASE rq[r].pc = "wait1" -> "load1"
                [] rq[r].pc = "wait2" -> "fin_load"
                [] OTHER -> "del_check"]
  /\ UNCHANGED <<store, otherFiles, otherLocks, chat_locks, appended>>

\* chat_data = load_chat_data(chat_id), inside the lock
\* when json.load raises, the exception leaves the block (the lock is
\* released) and ends the generator
Load1(r) ==
  /\ rq[r].pc = "load1"
  /\ IF LoadRaises(store, rq[r].sid)
     THEN /\ rq' = [rq EXCEPT ![r] = Ended(rq[r], "LoadError")]
          /\ holder' = ReleaseLock(holder, rq[r].sid)
     ELSE /\ rq' = [rq EXCEPT ![r].pc = "rel1",
                       ![r].chat_data = load_chat_data(store, rq[r].sid)]
          /\ holder' = holder
  /\ UNCHANGED <<store, otherFiles, otherLocks, chat_locks, waiters, appended>>

\* leaving the first `async with lock:`; the prompt is built up to the await
\* of create_subprocess_exec
Release1(r) ==
  /\ rq[r].pc = "rel1"
  /\ holder' = ReleaseLock(holder, rq[r].sid)
  /\ rq' = [rq EXCEPT ![r].pc = "spawn",
                      ![r].full_prompt = Assemble(rq[r].chat_data, rq[r].msg)]
  /\ UNCHANGED <<store, otherFiles, otherLocks, chat_locks, waiters, appended>>

\* process = await asyncio.create_subprocess_exec(...)
Spawn(r) ==
  /\ rq[r].pc = "spawn"
  /\ rq' = [rq EXCEPT ![r].pc = "read", ![r].proc = "running"]
  /\ UNCHANGED <<store, otherFiles, otherLocks, chat_locks, holder, waiters, appended>>

\* t is the start of something the process can write
IsPrefix(t) == \E o \in Outputs : Len(t) <= Len(o) /\ SubSeq(o, 1, Len(t)) = t

\* token = await process.stdout.read(1); full_response_bytes += token; yield token
ReadToken(r, c) ==
  /\ rq[r].pc = "read"
  /\ IsPrefix(Append(rq[r].full_response_bytes, c))
  /\ rq' = [rq EXCEPT ![r].pc = "yield_tok",
                      ![r].full_response_bytes = Append(@, c),
                      ![r].emitted = Append(@, <<c>>)]
  /\ UNCHANGED <<store, otherFiles, otherLocks, chat_locks, holder, waiters, appended>>

\* the caller asks for the next chunk: the generator resumes after the yield
Resume(r) ==
  /\ rq[r].pc = "yield_tok"
  /\ rq' = [rq EXCEPT ![r].pc = "read"]
  /\ UNCHANGED <<store, otherFiles, otherLocks, chat_locks, holder, waiters, appended>>

\* stdout is at EOF (or read returns b''): the loop ends, await process.wait()
ReadEOF(r) ==
  /\ rq[r].pc = "read"
  /\ rq[r].full_response_bytes \in Outputs
  /\ rq' = [rq EXCEPT ![r].pc = "wait"]
  /\ UNCHANGED <<store, otherFiles, otherLocks, chat_locks, holder, waiters, appended>>

\* the generation process ends by itself, after closing its stdout
ProcExit(r, e) ==
  /\ rq[r].proc = "running"
  /\ rq[r].pc = "wait" \/ rq[r].outcome = "Aborted"
  /\ rq' = [rq EXCEPT ![r].proc = "exited", ![r].returncode = e.code,
                      ![r].stderr = e.err]
  /\ UNCHANGED <<store, otherFiles, otherLocks, chat_locks, holder, waiters, appended>>

\* faulty variant: the empty-response return is missing
IsEmptyTextNever(text) == FALSE

\* if not assistant_response
IsEmptyText(text) == text = <<>>

\* process.wait() returns: the error notice, the empty-response return, or
\* the second `async with lock:`
AfterWait(r) ==
  /\ rq[r].pc = "wait"
  /\ rq[r].proc = "exited"
  /\ IF rq[r].returncode # 0
     THEN /\ rq' = [rq EXCEPT ![r].pc = "yield_err",
                      ![r].emitted = Append(@, ErrorNotice(rq[r].stderr))]
          /\ UNCHANGED <<chat_locks, holder, waiters>>
     ELSE LET text == Extract(rq[r].full_response_bytes) IN
          IF IsEmptyText(text)
          THEN /\ rq' = [rq EXCEPT ![r] = Ended(rq[r], "EmptyResult")]
               /\ UNCHANGED <<chat_locks, holder, waiters>>
          ELSE Acquire(r, rq[r].sid, "fin_load", "wait2",
                       [rq[r] EXCEPT !.assistant_response = text])
  /\ UNCHANGED <<store, otherFiles, otherLocks, appended>>

\* the caller resumes after the error notice: return
ErrReturn(r) ==
  /\ rq[r].pc = "yield_err"
  /\ rq' = [rq EXCEPT ![r] = Ended(rq[r], "Failed")]
  /\ UNCHANGED <<store, otherFiles, otherLocks, chat_locks, holder, waiters, appended>>

\* the caller stops consuming the stream: the generator is closed at its
\* yield, or its task is cancelled at its await. The source has no handler
\* for either, so nothing else runs.
Abort(r) ==
  /\ rq[r].pc \in {"read", "yield_tok", "wait", "yield_err", "wait1", "wait2"}
  /\ rq' = [rq EXCEPT ![r] = Ended(rq[r], "Aborted")]
  /\ waiters' = [waiters EXCEPT ![rq[r].sid] = SelectSeq(@, LAMBDA x : x # r)]
  /\ UNCHANGED <<store, otherFiles, otherLocks, chat_locks, holder, appended>>

\* faulty variant: the finalize reuses the record read before streaming
FinLoadStale(r) ==
  /\ rq[r].pc = "fin_load"
  /\ rq' = [rq EXCEPT ![r].pc = "fin_mutate",
                      ![r].final_chat_data = rq[r].chat_data]
  /\ holder' = holder
  /\ UNCHANGED <<store, otherFiles, otherLocks, chat_locks, waiters, appended>>

\* final_chat_data = load_chat_data(chat_id), inside the lock
FinLoad(r) ==
  /\ rq[r].pc = "fin_load"
  /\ IF LoadRaises(store, rq[r].sid)
     THEN /\ rq' = [rq EXCEPT ![r] = Ended(rq[r], "LoadError")]
          /\ holder' = ReleaseLock(holder, rq[r].sid)
     ELSE /\ rq' = [rq EXCEPT ![r].pc = "fin_mutate",
                       ![r].final_chat_data = load_chat_data(store, rq[r].sid)]
          /\ holder' = holder
  /\ UNCHANGED <<store, otherFiles, otherLocks, chat_locks, waiters, appended>>

\* faulty variant: the record to save is built anew around the history
FinMutateFresh(r) ==
  /\ rq[r].pc = "fin_mutate"
  /\ rq' = [rq EXCEPT ![r].pc = "fin_save",
              ![r].final_chat_data =
                 [EmptyRecord EXCEPT !.history =
                    LastTurns(Append(rq[r].final_chat_data.history,
                                     Turn(rq[r].msg, rq[r].assistant_response)))]]
  /\ UNCHANGED <<store, otherFiles, otherLocks, chat_locks, holder, waiters, appended>>

\* history.append({...}); history = history[-MAX_HISTORY_MESSAGES:]
FinMutate(r) ==
  /\ rq[r].pc = "fin_mutate"
  /\ rq' = [rq EXCEPT ![r].pc = "fin_save",
              ![r].final_chat_data.history =
                 LastTurns(Append(@, Turn(rq[r].msg, rq[r].assistant_response)))]
  /\ UNCHANGED <<store, otherFiles, otherLocks, chat_locks, holder, waiters, appended>>

\* faulty variant: a record deleted in the meantime is not written again
FinSaveIfExists(r) ==
  /\ rq[r].pc = "fin_save"
  /\ IF Exists(store, rq[r].sid)
     THEN /\ store' = save_chat_data(store, rq[r].sid, rq[r].final_chat_data)
          /\ rq' = [rq EXCEPT ![r].pc = "rel2", ![r].wrote = TRUE]
          /\ appended' = [appended EXCEPT ![rq[r].sid] =
                Append(@, Turn(rq[r].msg, Extract(Flatten(rq[r].emitted))))]
     ELSE /\ rq' = [rq EXCEPT ![r].pc = "rel2"]
          /\ UNCHANGED <<store, appended>>
  /\ UNCHANGED <<otherFiles, otherLocks, chat_locks, holder, waiters>>

\* save_chat_data(chat_id, final_chat_data)
FinSave(r) ==
  /\ rq[r].pc = "fin_save"
  /\ store' = save_chat_data(store, rq[r].sid, rq[r].final_chat_data)
  /\ rq' = [rq EXCEPT ![r].pc = "rel2", ![r].wrote = TRUE]
  /\ appended' = [appended EXCEPT ![rq[r].sid] =
                    Append(@, Turn(rq[r].msg, Extract(Flatten(rq[r].emitted))))]
  /\ UNCHANGED <<otherFiles, otherLocks, chat_locks, holder, waiters>>

\* save_chat_data raises OSError: at open(history_file, "w") the old file is
\* untouched; once the file is open it has been truncated, and an error of
\* json.dump leaves it empty or cut short. The exception leaves the block
\* (the lock is released) and ends the generator.
SaveFails(r, at) ==
  /\ rq[r].pc = "fin_save"
  /\ store' = IF at = "open" THEN store
              ELSE [store EXCEPT ![rq[r].sid] = Corrupt]
  /\ holder' = ReleaseLock(holder, rq[r].sid)
  /\ rq' = [rq EXCEPT ![r] = Ended(rq[r], "SaveError")]
  /\ UNCHANGED <<otherFiles, otherLocks, chat_locks, waiters, appended>>

\* leaving the second `async with lock:`; the generator is exhausted
Release2(r) ==
  /\ rq[r].pc = "rel2"
  /\ holder' = ReleaseLock(holder, rq[r].sid)
  /\ rq' = [rq EXCEPT ![r] = Ended(rq[r], "Succeeded")]
  /\ UNCHANGED <<store, otherFiles, otherLocks, chat_locks, waiters, appended>>

\* ------------------------------------------------------- DELETE /history

\* delete_history: lock = chat_locks[chat_id]; async with lock:
Delete(r, s) ==
  /\ rq[r].pc = "idle"
  /\ Acquire(r, s, "del_check", "del_wait",
             [rq[r] EXCEPT !.kind = "delete", !.sid = s])
  /\ UNCHANGED <<store, otherFiles, otherLocks, appended>>

\* faulty variant: deleting an absent record is answered like a removal
DelCheckIdempotent(r) ==
  /\ rq[r].pc = "del_check"
  /\ IF Exists(store, rq[r].sid)
     THEN /\ rq' = [rq EXCEPT ![r].pc = "del_remove"]
          /\ holder' = holder
     ELSE /\ rq' = [rq EXCEPT ![r] = Ended(rq[r], "Deleted")]
          /\ holder' = ReleaseLock(holder, rq[r].sid)
  /\ UNCHANGED <<store, otherFiles, otherLocks, chat_locks, waiters, appended>>

\* if not os.path.exists(history_file): raise HTTPException(404)
DelCheck(r) ==
  /\ rq[r].pc = "del_check"
  /\ IF Exists(store, rq[r].sid)
     THEN /\ rq' = [rq EXCEPT ![r].pc = "del_remove"]
          /\ holder' = holder
     ELSE /\ rq' = [rq EXCEPT ![r] = Ended(rq[r], "NotFound")]
          /\ holder' = ReleaseLock(holder, rq[r].sid)
  /\ UNCHANGED <<store, otherFiles, otherLocks, chat_locks, waiters, appended>>

\* os.remove(history_file)
DelRemove(r) ==
  /\ rq[r].pc = "del_remove"
  /\ store' = [store EXCEPT ![rq[r].sid] = NoFile]
  /\ appended' = [appended EXCEPT ![rq[r].sid] = <<>>]
  /\ rq' = [rq EXCEPT ![r].pc = "del_rel", ![r].wrote = TRUE]
  /\ UNCHANGED <<otherFiles, otherLocks, chat_locks, holder, waiters>>

\* os.remove raises OSError: the file stays, HTTPException(500) leaves the
\* block
DelFails(r) ==
  /\ rq[r].pc = "del_remove"
  /\ holder' = ReleaseLock(holder, rq[r].sid)
  /\ rq' = [rq EXCEPT ![r] = Ended(rq[r], "DeleteError")]
  /\ UNCHANGED <<store, otherFiles, otherLocks, chat_locks, waiters, appended>>

\* return {"detail": ...}, leaving `async with lock:`
DelReturn(r) ==
  /\ rq[r].pc = "del_rel"
  /\ holder' = ReleaseLock(holder, rq[r].sid)
  /\ rq' = [rq EXCEPT ![r] = Ended(rq[r], "Deleted")]
  /\ UNCHANGED <<store, otherFiles, otherLocks, chat_locks, waiters, appended>>

\* ---------------------------------------------------------- GET /history

\* get_history: 404 when no file exists, else load_chat_data
GetHistory(r, s) ==
  /\ rq[r].pc = "idle"
  /\ LET base == [rq[r] EXCEPT !.kind = "history", !.sid = s] IN
     rq' = [rq EXCEPT ![r] =
       IF ~Exists(store, s) THEN Ended(base, "NotFound")
       ELSE IF LoadRaises(store, s) THEN Ended(base, "LoadError")
       ELSE Ended([base EXCEPT !.response = <<load_chat_data(store, s)>>],
                  "History")]
  /\ UNCHANGED <<store, otherFiles, otherLocks, chat_locks, holder, waiters, appended>>

\* the caller of an ended request sends its next request
Recycle(r) ==
  /\ rq[r].pc = "done"
  /\ rq[r].proc # "running"
  /\ rq' = [rq EXCEPT ![r] = IdleReq]
  /\ UNCHANGED <<store, otherFiles, otherLocks, chat_locks, holder, waiters, appended>>

\* --------------------------------------------------------- specifications

Next ==
  \/ \E r \in Req, s \in Sid, dry \in BOOLEAN : Chat(r, s, r, dry)
  \/ \E r \in Req : GenStart(r)
  \/ \E r \in Req : Granted(r)
  \/ \E r \in Req : Load1(r)
  \/ \E r \in Req : Release1(r)
  \/ \E r \in Req : Spawn(r)
  \/ \E r \in Req, c \in Chunk : ReadToken(r, c)
  \/ \E r \in Req : Resume(r)
  \/ \E r \in Req : ReadEOF(r)
  \/ \E r \in Req, e \in ProcEnd : ProcExit(r, e)
  \/ \E r \in Req : AfterWait(r)
  \/ \E r \in Req : ErrReturn(r)
  \/ \E r \in Req : Abort(r)
  \/ \E r \in Req : FinLoad(r)
  \/ \E r \in Req : FinMutate(r)
  \/ \E r \in Req : FinSave(r)
  \/ \E r \in Req : Release2(r)
  \/ \E r \in Req, s \in Sid : Delete(r, s)
  \/ \E r \in Req : DelCheck(r)
  \/ \E r \in Req : DelRemove(r)
  \/ \E r \in Req : DelReturn(r)

Spec == Init /\ [][Next]_vars

\* One caller sending chat requests for one session, one after the other.
SeqInit ==
  /\ store = [s \in Sid |-> NoFile]
  /\ otherFiles = 0
  /\ otherLocks = 0
  /\ InitCommon

SeqNext ==
  \/ \E m \in Msg : Len(appended["s1"]) < MaxSeqTurns /\ Chat(1, "s1", m, FALSE)
  \/ GenStart(1)
  \/ Load1(1)
  \/ Release1(1)
  \/ Spawn(1)
  \/ \E c \in Chunk : ReadToken(1, c)
  \/ Resume(1)
  \/ ReadEOF(1)
  \/ \E e \in ProcEnd : ProcExit(1, e)
  \/ AfterWait(1)
  \/ ErrReturn(1)
  \/ Abort(1)
  \/ FinLoad(1)
  \/ FinMutate(1)
  \/ FinSave(1)
  \/ Release2(1)
  \/ Recycle(1)

SeqSpec == SeqInit /\ [][SeqNext]_vars

\* Requests over a directory that may hold a malformed file, with saves and
\* removals that may fail.
FaultInit ==
  /\ store \in {[s \in Sid |-> IF s = "s1" THEN File(SeedRecord) ELSE NoFile],
                [s \in Sid |-> IF s = "s1" THEN Corrupt ELSE NoFile]}
  /\ otherFiles = 0
  /\ otherLocks = 0
  /\ chat_locks = {}
  /\ holder = [s \in Sid |-> NoReq]
  /\ waiters = [s \in Sid |-> <<>>]
  /\ rq = [r \in Req |-> IdleReq]
  /\ appended = [s \in Sid |-> IF LoadRaises(store, s) THEN <<>>
                                ELSE load_chat_data(store, s).history]

FaultNext ==
  \/ Next
  \/ \E r \in Req, at \in {"open", "write"} : SaveFails(r, at)
  \/ \E r \in Req : DelFails(r)
  \/ \E r \in Req, s \in Sid : GetHistory(r, s)

FaultSpec == FaultInit /\ [][FaultNext]_vars

\* The two prompt builders applied to every stored record of PromptRecords:
\* request 1 asks for a dry run, request 2 runs the generator up to the spawn.
PromptTurns == {Turn(1, <<"a">>), Turn(2, <<"a", "a">>)}

PromptHistories ==
  UNION {[1..n -> PromptTurns] : n \in 0..2}
  \cup {[i \in 1..MAX_HISTORY_MESSAGES + 1 |->
           IF i = k THEN Turn(2, <<"a", "a">>) ELSE Turn(1, <<"a">>)] :
         k \in {0, 1, 2}}

PromptRecords ==
  [system_prompt : {Null, "", "sys"}, history : PromptHistories]

PromptInit ==
  /\ store \in {[s \in Sid |-> NoFile]}
       \cup {[s \in Sid |-> IF s = "s1" THEN File(d) ELSE NoFile] :
             d \in PromptRecords}
  /\ otherFiles = 0
  /\ otherLocks = 0
  /\ InitCommon

PromptNext ==
  \/ \E m \in Msg : Chat(1, "s1", m, TRUE)
  \/ \E m \in Msg : Chat(2, "s1", m, FALSE)
  \/ GenStart(2)
  \/ Load1(2)
  \/ Release1(2)

PromptSpec == PromptInit /\ [][PromptNext]_vars

\* The event loop runs every task that is ready: a generator that has been
\* started, a task whose lock acquire can be granted, a task inside an
\* `async with lock:` block (which holds no await) and a generator whose
\* process has exited all take their next step. Nothing is assumed about
\* the generation process, the callers or the arrival of requests.
Fairness ==
  \A r \in Req :
    /\ WF_vars(GenStart(r))
    /\ WF_vars(Granted(r))
    /\ WF_vars(Load1(r))
    /\ WF_vars(Release1(r))
    /\ WF_vars(AfterWait(r))
    /\ WF_vars(FinLoad(r))
    /\ WF_vars(FinMutate(r))
    /\ WF_vars(FinSave(r))
    /\ WF_vars(Release2(r))
    /\ WF_vars(DelCheck(r))
    /\ WF_vars(DelRemove(r))
    /\ WF_vars(DelReturn(r))

\* Chat and delete requests over an empty directory; a generation process
\* writes nothing or a marker and a character, and exits with status 0 if it
\* exits at all.
LiveInit ==
  /\ store = [s \in Sid |-> NoFile]
  /\ otherFiles = 0
  /\ otherLocks = 0
  /\ InitCommon

LiveNext ==
  \/ \E r \in Req, s \in Sid : Chat(r, s, r, FALSE)
  \/ \E r \in Req : GenStart(r)
  \/ \E r \in Req : Granted(r)
  \/ \E r \in Req : Load1(r)
  \/ \E r \in Req : Release1(r)
  \/ \E r \in Req : Spawn(r)
  \/ \E r \in Req, c \in {"MARK", "a"} : ReadToken(r, c)
  \/ \E r \in Req : Resume(r)
  \/ \E r \in Req : ReadEOF(r)
  \/ \E r \in Req, e \in {x \in ProcEnd : x.code = 0} : ProcExit(r, e)
  \/ \E r \in Req : AfterWait(r)
  \/ \E r \in Req : Abort(r)
  \/ \E r \in Req : FinLoad(r)
  \/ \E r \in Req : FinMutate(r)
  \/ \E r \in Req : FinSave(r)
  \/ \E r \in Req : Release2(r)
  \/ \E r \in Req, s \in Sid : Delete(r, s)
  \/ \E r \in Req : DelCheck(r)
  \/ \E r \in Req : DelRemove(r)
  \/ \E r \in Req : DelReturn(r)

LiveSpec == LiveInit /\ [][LiveNext]_vars /\ Fairness

\* ------------------------------------------------------------------ claims

InLockOn(s) == {r \in Req : InLock(r) /\ rq[r].sid = s}

C1_Mutex ==
  \A s \in Sid :
    /\ Cardinality(InLockOn(s)) <= 1
    /\ \A r \in InLockOn(s) : holder[s] = r

C1_DeleteUnderLock ==
  \A s \in Sid :
    (Exists(store, s) /\ ~Exists(store', s)) =>
      \E r \in Req : /\ rq[r].kind = "delete"
                     /\ rq[r].sid = s
                     /\ rq[r].pc = "del_remove"
                     /\ holder[s] = r
                     /\ InLockOn(s) = {r}

\* C1: for every session, at most one lock-protected section (a chat's
\* initial load, a chat's finalize load-append-truncate-save, a delete's
\* exists-check-and-remove) is executing at any moment, and a record is
\* removed only by a delete that holds the session's lock.
C1_LockSections == []C1_Mutex /\ [][C1_DeleteUnderLock]_vars

\* a delete is about to remove the record while a chat request waits for the
\* same lock
C1_Witness ==
  \E r1, r2 \in Req :
    /\ rq[r1].pc = "del_remove"
    /\ rq[r2].pc \in {"wait1", "wait2"}
    /\ rq[r2].sid = rq[r1].sid

\* C2: a chat request whose generation process is spawned and has not exited
\* does not hold its session's lock; a chat request holds the lock only
\* during its initial load and its finalize load-append-save.
C2_StreamUnlocked ==
  /\ \A r \in Req :
       (rq[r].proc = "running" \/ rq[r].pc \in {"read", "yield_tok", "wait"}) =>
         (holder[rq[r].sid] # r /\ ~InLock(r))
  /\ \A s \in Sid :
       (holder[s] # NoReq /\ rq[holder[s]].kind = "chat") =>
         rq[holder[s]].pc \in {"load1", "rel1", "fin_load", "fin_mutate",
                               "fin_save", "rel2"}

\* a chunk has just been handed to the caller of one request while another
\* request is inside the lock of the same session
C2_Witness ==
  \E r1, r2 \in Req :
    /\ rq[r1].pc = "yield_tok"
    /\ rq[r1].proc = "running"
    /\ rq[r2].sid = rq[r1].sid
    /\ holder[rq[r1].sid] = r2

NoWriteOutcomes == {"Failed", "EmptyResult", "Aborted"}

C3_NoWriteRecorded ==
  \A r \in Req : rq[r].outcome \in NoWriteOutcomes => ~rq[r].wrote

C3_OnlySuccessWrites ==
  \A s \in Sid :
    store'[s] # store[s] =>
      \E r \in Req :
        /\ rq[r].sid = s
        /\ \/ rq[r].pc = "del_remove"
           \/ /\ rq[r].pc = "fin_save"
              /\ rq[r].proc = "exited"
              /\ rq[r].returncode = 0
              /\ Extract(Flatten(rq[r].emitted)) # <<>>
              /\ rq'[r].pc = "rel2"

\* C3: a chat request that ends Failed, EmptyResult or Aborted has written
\* nothing to the store; a record changes only through the save of a request
\* whose process exited with status 0 and whose extracted text is non-empty
\* (or through a delete).
C3_NoPartialPersistence == []C3_NoWriteRecorded /\ [][C3_OnlySuccessWrites]_vars

\* a request ended EmptyResult after streaming output, one ended Failed or
\* Aborted, and the records are as they were at the start
C3_Witness ==
  \E r1, r2 \in Req :
    /\ rq[r1].outcome = "EmptyResult"
    /\ rq[r1].emitted # <<>>
    /\ rq[r2].outcome \in {"Failed", "Aborted"}
    /\ rq[r2].sid = rq[r1].sid
    /\ store[rq[r1].sid] = File(SeedRecord)

\* C4: every persisted record's history has at most MAX_HISTORY_MESSAGES
\* turns.
C4_WindowBound ==
  \A s \in Sid : Exists(store, s) => Len(store[s][1].history) <= MAX_HISTORY_MESSAGES

\* a full record has taken a new turn and still has MAX_HISTORY_MESSAGES turns
C4_Witness ==
  \E s \in Sid :
    /\ Exists(store, s)
    /\ Len(store[s][1].history) = MAX_HISTORY_MESSAGES
    /\ store[s][1].history[MAX_HISTORY_MESSAGES].user # 0

\* the last MAX_HISTORY_MESSAGES elements of a
Newest(a) ==
  [i \in 1..(IF Len(a) > MAX_HISTORY_MESSAGES THEN MAX_HISTORY_MESSAGES ELSE Len(a)) |->
     a[i + (IF Len(a) > MAX_HISTORY_MESSAGES THEN Len(a) - MAX_HISTORY_MESSAGES ELSE 0)]]

\* C5: after N successful chat turns on a session (no delete), the stored
\* history is the last MAX_HISTORY_MESSAGES of those turns in the order they
\* were appended, of length exactly MAX_HISTORY_MESSAGES once
\* N > MAX_HISTORY_MESSAGES; each turn pairs the request's message with the
\* text extracted from what that request streamed.
C5_LastTurnsKept ==
  \A s \in Sid :
    /\ appended[s] # <<>> => Exists(store, s)
    /\ Exists(store, s) => store[s][1].history = Newest(appended[s])
    /\ Len(appended[s]) > MAX_HISTORY_MESSAGES =>
         Len(load_chat_data(store, s).history) = MAX_HISTORY_MESSAGES

\* more turns than the window were appended, with both messages among them
C5_Witness ==
  /\ Len(appended["s1"]) > MAX_HISTORY_MESSAGES
  /\ rq[1].outcome = "Succeeded"
  /\ appended["s1"][1].user # appended["s1"][2].user
  /\ Len(store["s1"][1].history) = MAX_HISTORY_MESSAGES

Records == Cardinality({s \in Sid : store[s] # NoFile}) + otherFiles

C7_RejectedUntouched ==
  \A r \in Req :
    ( /\ rq[r].pc = "idle"
      /\ rq'[r].pc # "idle"
      /\ rq'[r].kind = "chat"
      /\ ~Exists(store, rq'[r].sid)
      /\ Records >= MAX_TOTAL_CHATS )
    => /\ rq'[r].pc = "done"
       /\ rq'[r].outcome = "CapacityExceeded"
       /\ rq'[r].proc = "none"
       /\ rq'[r].emitted = <<>>
       /\ UNCHANGED <<store, otherFiles, otherLocks, chat_locks, holder, waiters>>

C7_RejectedStaysOut ==
  \A r \in Req :
    rq[r].outcome = "CapacityExceeded" =>
      /\ rq[r].pc = "done"
      /\ rq[r].proc = "none"
      /\ ~rq[r].wrote
      /\ \A s \in Sid : holder[s] # r

\* C7: when the store holds the maximum number of sessions, a chat request
\* for an id without a record is rejected with the capacity error in the same
\* step: no lock entry is created or taken, no process is spawned, no record
\* is written and the session count is unchanged.
C7_CapacityRejection == []C7_RejectedStaysOut /\ [][C7_RejectedUntouched]_vars

\* a request was rejected and the store holds exactly the maximum
C7_Witness ==
  \E r \in Req :
    /\ rq[r].outcome = "CapacityExceeded"
    /\ Records = MAX_TOTAL_CHATS
    /\ rq[r].sid \notin chat_locks

\* C8: no state has a request Aborted with its generation process still
\* alive.
C8_AbortStopsProcess ==
  \A r \in Req : rq[r].outcome = "Aborted" => rq[r].proc # "running"

\* err = (whitespace) t (whitespace), t without whitespace at either end
TrimmedTo(err, t) ==
  /\ t = <<>> \/ (t[1] # "sp" /\ t[Len(t)] # "sp")
  /\ \E i \in 1..(Len(err) + 1) :
       /\ i + Len(t) - 1 <= Len(err)
       /\ \A k \in 1..Len(t) : err[i + k - 1] = t[k]
       /\ \A k \in 1..Len(err) : (k < i \/ k > i + Len(t) - 1) => err[k] = "sp"

\* C9: when the generation process exits with a non-zero status, the stream
\* delivered to the caller is every stdout chunk the process wrote, in order,
\* then exactly one error notice carrying the process's stderr text (as the
\* code renders it: surrounding whitespace trimmed); the stream ends there.
C9_FailedStream ==
  \A r \in Req :
    /\ rq[r].pc = "yield_err" =>
         /\ rq[r].returncode # 0
         /\ rq[r].emitted =
              [i \in 1..Len(rq[r].full_response_bytes) |->
                 <<rq[r].full_response_bytes[i]>>]
              \o <<rq[r].emitted[Len(rq[r].emitted)]>>
    /\ (rq[r].pc = "yield_err" \/ rq[r].outcome = "Failed") =>
         LET n == Len(rq[r].emitted) IN
           /\ n >= 1
           /\ Flatten(SubSeq(rq[r].emitted, 1, n - 1)) \in Outputs
           /\ \A i \in 1..(n - 1) : Len(rq[r].emitted[i]) = 1
           /\ LET notice == rq[r].emitted[n] IN
                /\ Len(notice) >= 2
                /\ notice[1] = ErrorHeader
                /\ notice[Len(notice)] = "\n"
                /\ TrimmedTo(rq[r].stderr, SubSeq(notice, 2, Len(notice) - 1))

\* a failed request delivered stdout output and then the notice for a stderr
\* text with whitespace around it
C9_Witness ==
  \E r \in Req :
    /\ rq[r].outcome = "Failed"
    /\ Len(rq[r].emitted) = 3
    /\ rq[r].stderr = <<"sp", "e", "sp">>

\* between its first load and its end
Underway(r) ==
  /\ rq[r].kind = "chat"
  /\ rq[r].pc \in {"rel1", "spawn", "read", "yield_tok", "wait", "yield_err",
                   "wait2", "fin_load", "fin_mutate", "fin_save", "rel2"}

\* C10 as stated: of two chat requests on one session, one fully completes
\* (or aborts) before the other begins its own load.
C10_RequestsSerial ==
  \A r1, r2 \in Req :
    (r1 # r2 /\ rq[r1].sid = rq[r2].sid) => ~(Underway(r1) /\ Underway(r2))

\* C10 (amended): the locked sections of two requests on one session never
\* interleave: while a request is inside its initial load or its finalize
\* load-mutate-save no other request is inside a locked section of that
\* session, what it has loaded is what the store still holds, and what it is
\* about to save is that record with its turn appended and truncated.
C10_SectionsSerial ==
  \A r \in Req :
    LET cur == load_chat_data(store, rq[r].sid) IN
    /\ rq[r].pc = "rel1" => rq[r].chat_data = cur
    /\ rq[r].pc = "fin_mutate" => rq[r].final_chat_data = cur
    /\ rq[r].pc = "fin_save" =>
         /\ rq[r].final_chat_data.system_prompt = cur.system_prompt
         /\ rq[r].final_chat_data.history =
              Newest(Append(cur.history, Turn(rq[r].msg, rq[r].assistant_response)))
    /\ InLock(r) =>
         \A r2 \in Req : (r2 # r /\ rq[r2].sid = rq[r].sid) => ~InLock(r2)

\* a request is about to save while another request's first load waits for
\* the same lock
C10_Witness ==
  \E r1, r2 \in Req :
    /\ rq[r1].pc = "fin_save"
    /\ rq[r2].pc = "wait1"
    /\ rq[r2].sid = rq[r1].sid

\* C11: a dry-run chat request that passes admission returns the assembled
\* prompt and changes nothing else: the lock table, the locks and their
\* queues, the directory and the processes are as before.
C11_DryRunFrame ==
  [][\A r \in Req :
       rq[r].pc = "idle" /\ rq'[r].outcome = "DryRun" =>
         /\ chat_locks' = chat_locks /\ otherLocks' = otherLocks
         /\ holder' = holder /\ waiters' = waiters
         /\ store' = store /\ otherFiles' = otherFiles
         /\ appended' = appended
         /\ rq'[r].proc = "none" /\ ~rq'[r].wrote
         /\ \A q \in Req \ {r} : rq'[q] = rq[q]
         /\ \E m \in Req \cup Msg :
              rq'[r].response =
                Assemble(load_chat_data(store, rq'[r].sid), m)]_vars

\* a dry run on the seeded session has answered with a prompt carrying the
\* stored turns, and the session has no entry in the lock table
C11_Witness ==
  \E r \in Req :
    /\ rq[r].outcome = "DryRun"
    /\ Exists(store, rq[r].sid)
    /\ Len(rq[r].response) > 2 * MAX_HISTORY_MESSAGES
    /\ rq[r].sid \notin chat_locks

C13_LoadNeverFails == \A r \in Req : rq[r].outcome # "LoadError"

\* C14: a save that fails leaves the directory as it was before the save
\* began: the file of the session is the one stored before, or still absent.
C14_SaveAllOrNothing ==
  [][\A r \in Req :
       rq[r].pc = "fin_save" /\ rq'[r].outcome = "SaveError" =>
         store' = store]_vars

\* the turns of h a prompt shows: the last MAX_HISTORY_MESSAGES, in order
Shown(h) ==
  LET n == IF Len(h) < MAX_HISTORY_MESSAGES THEN Len(h)
           ELSE MAX_HISTORY_MESSAGES
  IN [i \in 1..n |-> h[Len(h) - n + i]]

\* p is the prompt for record `data` and message m, the system prompt being
\* shown when `shown`, with `human` and `assistant` as the two role labels
PromptIs(p, data, m, shown, human, assistant) ==
  LET h == Shown(data.history)
      k == IF shown THEN 1 ELSE 0
      n == k + Len(h) + 1
  IN /\ Len(p) = 2 * n - 1
     /\ \A j \in 1..n - 1 : p[2 * j] = <<"\n">>
     /\ shown => p[1] = <<data.system_prompt>>
     /\ \A i \in 1..Len(h) :
          p[2 * (k + i) - 1] =
            <<human \o " ", h[i].user, "\n", assistant \o " ", h[i].assistant>>
     /\ p[2 * n - 1] = <<human \o " ", m, "\n", assistant>>

\* the message a prompt ends with
MessageOf(p) == p[Len(p)][2]

\* the dry-run answers and the generator prompts are all as PromptIs says
PromptsAre(present(_), human, assistant) ==
  \A r \in Req :
    LET data == load_chat_data(store, rq[r].sid) IN
    /\ rq[r].outcome = "DryRun" =>
         PromptIs(rq[r].response, data, MessageOf(rq[r].response),
                  present(data.system_prompt), human, assistant)
    /\ rq[r].pc = "spawn" =>
         PromptIs(rq[r].full_prompt, data, rq[r].msg,
                  present(data.system_prompt), human, assistant)

\* the two paths give the same prompt for the same record and message
SamePrompt ==
  \A r1, r2 \in Req :
    /\ rq[r1].outcome = "DryRun" /\ rq[r2].pc = "spawn"
    /\ rq[r1].sid = rq[r2].sid
    /\ MessageOf(rq[r1].response) = rq[r2].msg
    => rq[r1].response = rq[r2].full_prompt

LockEntries == Cardinality(chat_locks) + otherLocks

\* C16: the lock table never holds more entries than MAX_TOTAL_CHATS, the
\* cap on the number of sessions (and no entry is ever removed).
C16_LockTableBounded == LockEntries <= MAX_TOTAL_CHATS

\* C17: the finalize of a chat request keeps the system_prompt of the record:
\* inside the locked section the record being built has the system_prompt of
\* the stored record, and the save changes nothing but the history.
C17_KeptInSection ==
  \A r \in Req :
    rq[r].pc \in {"fin_mutate", "fin_save"} =>
      rq[r].final_chat_data.system_prompt =
        load_chat_data(store, rq[r].sid).system_prompt

C17_SaveKeeps ==
  \A r \in Req :
    rq[r].pc = "fin_save" /\ rq'[r].pc = "rel2" =>
      LET s == rq[r].sid
          old == load_chat_data(store, s)
      IN /\ Exists(store', s)
         /\ store'[s][1] = [old EXCEPT !.history = store'[s][1].history]
         /\ \A o \in Sid \ {s} : store'[o] = store[o]

C17_SystemPromptKept == []C17_KeptInSection /\ [][C17_SaveKeeps]_vars

\* a finalize has saved a new turn into the seeded record, whose system
\* prompt is still the seeded one
C17_Witness ==
  \E r \in Req :
    /\ rq[r].pc = "rel2"
    /\ store[rq[r].sid][1].system_prompt = "sys"
    /\ store[rq[r].sid][1].history[MAX_HISTORY_MESSAGES].user = r

\* chat requests that have saved into session s
Saved(s) ==
  {r \in Req : rq[r].kind = "chat" /\ rq[r].sid = s /\ rq[r].wrote}

\* the turns of session s saved by requests, in the order of their saves, and
\* the turns that were there before
NewTurns(s) == SelectSeq(appended[s], LAMBDA t : t.user # 0)
PriorTurns(s) == SelectSeq(appended[s], LAMBDA t : t.user = 0)

\* C19: without a delete on the session, the stored history holds the turn
\* of every chat request that succeeded exactly once, after the history that
\* was there before, in the order in which the finalize sections ran.
C19_NoLostUpdate ==
  \A s \in Sid :
    (\A r \in Req : ~(rq[r].kind = "delete" /\ rq[r].sid = s)) =>
      LET k == Cardinality(Saved(s))
          h == load_chat_data(store, s).history
      IN /\ appended[s] = PriorTurns(s) \o NewTurns(s)
         /\ Len(NewTurns(s)) = k
         /\ \A r \in Saved(s) : \E i \in 1..k : NewTurns(s)[i].user = r
         /\ h = Newest(PriorTurns(s) \o NewTurns(s))
         /\ k <= MAX_HISTORY_MESSAGES =>
              /\ Len(h) >= k
              /\ SubSeq(h, Len(h) - k + 1, Len(h)) = NewTurns(s)

\* two requests on the seeded session both loaded the seeded history before
\* either saved; both have saved, and both turns are stored
C19_Witness ==
  \E r1, r2 \in Req :
    /\ r1 # r2 /\ rq[r1].sid = rq[r2].sid
    /\ rq[r1].outcome = "Succeeded"
    /\ rq[r2].pc = "rel2" /\ rq[r2].chat_data.history = SeedHistory
    /\ LET h == store[rq[r1].sid][1].history IN
         /\ h[Len(h) - 1].user = r1
         /\ h[Len(h)].user = r2

\* C20: a finalize that finds no record (it was deleted while the request
\* streamed) writes a record with system_prompt null and the one new turn,
\* whatever the number of records is.
C20_OneTurnBuilt ==
  \A r \in Req :
    rq[r].pc = "fin_save" /\ ~Exists(store, rq[r].sid) =>
      rq[r].final_chat_data =
        [system_prompt |-> Null,
         history |-> <<Turn(rq[r].msg, rq[r].assistant_response)>>]

C20_SaveCreates ==
  \A r \in Req :
    rq[r].pc = "fin_save" /\ ~Exists(store, rq[r].sid) /\ rq'[r] # rq[r] =>
      /\ rq'[r].pc = "rel2"
      /\ store' = [store EXCEPT ![rq[r].sid] =
                     File([system_prompt |-> Null,
                           history |-> <<Turn(rq[r].msg,
                                              rq[r].assistant_response)>>])]

C20_RecreatedAfterDelete == []C20_OneTurnBuilt /\ [][C20_SaveCreates]_vars

\* a request that had loaded the seeded record has saved after a delete of
\* that session: the record is back with no system prompt and one turn
C20_Witness ==
  \E r, q \in Req :
    /\ rq[r].pc = "rel2" /\ rq[r].chat_data = SeedRecord
    /\ rq[q].outcome = "Deleted" /\ rq[q].sid = rq[r].sid
    /\ store[rq[r].sid] =
         File([system_prompt |-> Null,
               history |-> <<Turn(rq[r].msg, rq[r].assistant_response)>>])

\* request r is about to enter `async with lock:` or waits inside the acquire
WantsLock(r) == rq[r].pc \in {"gen_start", "wait1", "wait2", "del_wait"}

C18_Acquires ==
  \A r \in Req : WantsLock(r) ~> (InLock(r) \/ rq[r].outcome = "Aborted")

C18_Releases == \A r \in Req : InLock(r) ~> ~InLock(r)

\* a request starts to wait only when the lock of its own session is taken
\* or queued for, and it queues for that lock alone
C18_OwnLockOnly ==
  \A r \in Req :
    rq'[r].pc \in {"wait1", "wait2", "del_wait"} /\ rq'[r].pc # rq[r].pc =>
      /\ holder[rq'[r].sid] # NoReq \/ waiters[rq'[r].sid] # <<>>
      /\ \A s \in Sid \ {rq'[r].sid} : waiters'[s] = waiters[s]

\* C18: with the event loop running every ready task, a request that wants
\* a session lock gets it (unless its caller gives up), also while the
\* process of another request on that session never exits; it waits for the
\* lock of its own session only; and a lock that was taken is released.
C18_LockProgress == C18_Acquires /\ C18_Releases /\ [][C18_OwnLockOnly]_vars

\* a request heads the queue of its session's lock for its finalize, while
\* a later request on that session is inside the lock for its first load
C18_Witness ==
  \E r, q \in Req :
    /\ rq[r].pc = "wait2"
    /\ waiters[rq[r].sid] # <<>> /\ Head(waiters[rq[r].sid]) = r
    /\ holder[rq[r].sid] = q
    /\ rq[q].pc \in {"load1", "rel1"}
====
